---- MODULE Spec2Model ----
(***************************************************************************)
(* Task Manager API (src/app.py): the in-memory task store (tasks_db,      *)
(* task_id_counter) and the five request handlers over it, run as          *)
(* coroutines on one event loop.                                           *)
(*                                                                         *)
(* Conventions.  Python's None / an omitted JSON field is the empty tuple  *)
(* <<>>, a present value v is <<v>>.  List positions are 1-based here      *)
(* (Python's are 0-based); position 0 stands for "no index" (None).        *)
(* A task dict is a Python object: the list and the handlers' locals hold  *)
(* references to it.  A reference is the number of the dict in the order   *)
(* of construction (0 for None); the dicts of the list are in tasks_db,    *)
(* the dicts held only by a handler are in detached.                       *)
(***************************************************************************)
EXTENDS Naturals, Sequences, FiniteSets, TLC

VARIABLES
    tasks_db,         \* the list of task dicts (app.py:62)
    objects,          \* the references the list holds: objects[i] names the dict tasks_db[i]
    allocated,        \* the number of task dicts constructed so far
    detached,         \* the dicts a running handler holds that are not in the list: [obj, dict]
    task_id_counter,  \* the next id to assign (app.py:63)
    pc,               \* per connection: "idle", "pending", or the next statement of its handler
    req,              \* per connection: the request line (operation, path id)
    local,            \* per connection: the running handler's local variables
    loop,             \* the connection whose coroutine holds the event loop thread, or "none"
    response,         \* the response sent by the last step (<<>> when that step sent none)
    assigned,         \* history: the ids returned by successful creates, in order
    deleted,          \* history: the ids whose delete answered 204
    fresh,            \* history: the tasks as their creates returned them, each until it is updated or deleted
    clearing          \* the client clearing the store (a list, then a delete per id listed), or <<>>

vars == <<tasks_db, objects, allocated, detached, task_id_counter, pc, req, local, loop,
          response, assigned, deleted, fresh, clearing>>

----------------------------------------------------------------------------
(* Bounds and inputs *)

\* Creates are accepted while task_id_counter <= MaxCreates.
MaxCreates == 3

\* Field(min_length=1, max_length=100) and Field(max_length=500).
MinTitleLen == 1
MaxTitleLen == 100
MaxDescriptionLen == 500

\* The id the tests use for a task that never existed.
MissingId == 99999

\* The client connections that can have a request in flight.
Procs == {"p1", "p2"}

None == <<>>
Some(v) == <<v>>

\* The string of n copies of s.
RECURSIVE Rep(_, _)
Rep(s, n) == IF n = 0 THEN ""
             ELSE IF n % 2 = 0 THEN LET half == Rep(s, n \div 2) IN half \o half
             ELSE s \o Rep(s, n - 1)

\* A JSON request body: each field omitted (<<>>) or present (<<v>>).
Body(t, d, c) == [title |-> t, description |-> d, completed |-> c]

ValidBodies ==
    { Body(Some("Buy milk"), None, None),
      Body(Some(Rep("t", MaxTitleLen)), Some(Rep("d", MaxDescriptionLen)), Some(TRUE)) }

InvalidBodies ==
    { Body(Some(""), None, Some(FALSE)),
      Body(Some(Rep("t", MaxTitleLen + 1)), None, None),
      Body(Some("T"), Some(Rep("d", MaxDescriptionLen + 1)), None),
      Body(None, Some("D"), None) }

Bodies == ValidBodies \cup InvalidBodies

\* The values datetime.utcnow().isoformat() can return.
Timestamps == {"2024-01-01T00:00:00.000001", "2024-01-01T00:00:00.000002"}

\* The path ids a client sends.
PathIds == (1..MaxCreates) \cup {MissingId}

Requests ==
    { [op |-> "create", id |-> 0], [op |-> "list", id |-> 0] }
    \cup { [op |-> o, id |-> i] : o \in {"get", "update", "delete"}, i \in PathIds }

----------------------------------------------------------------------------
(* Pure helpers of the code *)

\* str(n) as the f-strings format an int.
Digits == <<"0", "1", "2", "3", "4", "5", "6", "7", "8", "9">>

RECURSIVE IntToStr(_)
IntToStr(n) == IF n < 10 THEN Digits[n + 1]
               ELSE IntToStr(n \div 10) \o Digits[(n % 10) + 1]

\* f"Task with id {task_id} not found"
NotFoundDetail(task_id) == "Task with id " \o IntToStr(task_id) \o " not found"

\* title: str = Field(..., min_length=1, max_length=100)
TitleOkNoMin(title) == Len(title) <= MaxTitleLen
TitleOkExclusive(title) == Len(title) >= MinTitleLen /\ Len(title) < MaxTitleLen
TitleOk(title) == Len(title) >= MinTitleLen /\ Len(title) <= MaxTitleLen

\* description: Optional[str] = Field(None, max_length=500)
DescriptionOk(description) ==
    description = None \/ Len(description[1]) <= MaxDescriptionLen

\* The fields pydantic reports for a body TaskCreate rejects.
ViolatedFields(body) ==
    (IF body.title = None \/ ~TitleOk(body.title[1]) THEN {"title"} ELSE {})
    \cup (IF ~DescriptionOk(body.description) THEN {"description"} ELSE {})

Valid(body) == ViolatedFields(body) = {}

\* The validated TaskCreate model of a body: omitted fields take their defaults.
TaskCreate(body) ==
    [ title       |-> body.title[1],
      description |-> body.description,
      completed   |-> IF body.completed = None THEN FALSE ELSE body.completed[1] ]

\* next((i for i, task in enumerate(tasks_db) if task["id"] == task_id), None)
FindIndexOrLast(db, task_id) ==
    IF \E i \in 1..Len(db) : db[i].id = task_id
    THEN CHOOSE i \in 1..Len(db) :
            db[i].id = task_id /\ \A j \in 1..(i - 1) : db[j].id # task_id
    ELSE Len(db)
FindIndexFalsy(db, task_id) ==
    IF \E i \in 2..Len(db) : db[i].id = task_id /\ db[1].id # task_id
    THEN CHOOSE i \in 2..Len(db) :
            db[i].id = task_id /\ \A j \in 1..(i - 1) : db[j].id # task_id
    ELSE 0
FindIndex(db, task_id) ==
    IF \E i \in 1..Len(db) : db[i].id = task_id
    THEN CHOOSE i \in 1..Len(db) :
            db[i].id = task_id /\ \A j \in 1..(i - 1) : db[j].id # task_id
    ELSE 0

\* next((task for task in tasks_db if task["id"] == task_id), None):
\* the reference to the first dict of the list with this id (0 for None).
FindTask(db, objs, task_id) ==
    IF \E i \in 1..Len(db) : db[i].id = task_id
    THEN objs[CHOOSE i \in 1..Len(db) :
                 db[i].id = task_id /\ \A j \in 1..(i - 1) : db[j].id # task_id]
    ELSE 0

\* Where the dict a reference names sits in the list (0: not in it).
Position(objs, ref) ==
    IF \E i \in 1..Len(objs) : objs[i] = ref
    THEN CHOOSE i \in 1..Len(objs) : objs[i] = ref
    ELSE 0

\* Whether the dict a reference names is (still) in the list.
InList(objs, ref) == Position(objs, ref) # 0

\* The dict a reference names when the list does not hold it.
Detached(det, ref) == (CHOOSE e \in det : e.obj = ref).dict

\* The dict a reference names: task[...] and `return task`.
DerefFirst(db, objs, det, ref) == IF db # <<>> THEN db[1] ELSE Detached(det, ref)
Deref(db, objs, det, ref) ==
    IF InList(objs, ref) THEN db[Position(objs, ref)] ELSE Detached(det, ref)

\* tasks_db.pop(task_index)
PopKeep(db, task_index) == db
PopLast(db, task_index) == SubSeq(db, 1, Len(db) - 1)
Pop(db, task_index) ==
    SubSeq(db, 1, task_index - 1) \o SubSeq(db, task_index + 1, Len(db))

\* "id": task_id_counter
NewIdFromLen(db, counter) == Len(db) + 1
NewIdZeroBased(db, counter) == counter - 1
NewId(db, counter) == counter

\* task_id_counter += 1
IncrementForgotten(counter) == counter
Increment(counter) == counter + 1

\* task["title"] = task_update.title, and the two assignments after it
AssignTitle(task, task_update) == [task EXCEPT !.title = task_update.title]
AssignDescriptionIfSet(task, task_update) ==
    IF task_update.description = None THEN task
    ELSE [task EXCEPT !.description = task_update.description]
AssignDescription(task, task_update) ==
    [task EXCEPT !.description = task_update.description]
AssignCompletedStamp(task, task_update) ==
    [task EXCEPT !.completed = task_update.completed,
                 !.created_at = "2024-01-01T00:00:00.000002"]
AssignCompleted(task, task_update) ==
    [task EXCEPT !.completed = task_update.completed]

\* The list after an assignment through a reference: the dict it names is
\* changed in place, and the list shows it when it holds that dict.
StoreMoveToEnd(db, objs, ref, new) ==
    IF Position(objs, ref) = 0 THEN db
    ELSE Append(SubSeq(db, 1, Position(objs, ref) - 1)
                   \o SubSeq(db, Position(objs, ref) + 1, Len(db)), new)
Store(db, objs, ref, new) ==
    IF Position(objs, ref) = 0 THEN db ELSE [db EXCEPT ![Position(objs, ref)] = new]

\* The dicts outside the list after the same assignment.
StoreDetached(det, objs, ref, new) ==
    IF InList(objs, ref) THEN det
    ELSE {e \in det : e.obj # ref} \cup {[obj |-> ref, dict |-> new]}

\* The dicts of the list that a change of the list removed from it.
Removed(db, objs, objs_after) ==
    { [obj |-> objs[i], dict |-> db[i]] :
         i \in {k \in 1..Len(objs) : Position(objs_after, objs[k]) = 0} }

\* A dict outside the list lives while the locals l of some handler refer to it.
Collect(det, l) ==
    {e \in det : \E q \in Procs : l[q].task = e.obj \/ l[q].new_task = e.obj}

\* get_tasks and get_task only read tasks_db (len, iteration, return): the
\* list after either of them.
AfterReadConsumed(db) == IF db = <<>> THEN db ELSE Tail(db)
AfterRead(db) == db

\* update_task's outcome before its assignments: the body is validated
\* before the handler is called (422), the handler then looks the task up
\* (404); 0 when the handler goes on to its assignments.
UpdateCheckLookupFirst(body, task) ==
    IF task = 0 THEN 404 ELSE IF ~Valid(body) THEN 422 ELSE 0
UpdateCheck(body, task) ==
    IF ~Valid(body) THEN 422 ELSE IF task = 0 THEN 404 ELSE 0

----------------------------------------------------------------------------
(* The event loop *)

\* The statements of the handlers at which the coroutine awaits: the handlers
\* are `async def` and their bodies hold no await expression.
AwaitEverywhere == {"c_append", "c_incr", "u_title", "u_description", "u_completed", "d_pop"}
AwaitPoints == {}

\* A coroutine runs when the loop is free and it is ready, or when it holds the loop.
CanRun(p) ==
    \/ loop = p
    \/ loop = "none" /\ (pc[p] = "pending" \/ pc[p] \in AwaitPoints)

\* The loop after p's step, which leaves p at statement `next`.
LoopAfter(p, next) == IF next = "idle" \/ next \in AwaitPoints THEN "none" ELSE p

NoLocal == [body |-> None, new_task |-> 0, task |-> 0, task_index |-> 0, pre |-> None]
NoReq == [op |-> "none", id |-> 0, after_delete |-> FALSE]

Snapshot == [db |-> tasks_db, counter |-> task_id_counter]

\* The response to p's request; pre is the store when its handler began.
Resp(p, status, body, pre) ==
    [ proc |-> p, op |-> req[p].op, id |-> req[p].id,
      after_delete |-> req[p].after_delete,
      body |-> body, status |-> status, detail |-> "", errors |-> {},
      task |-> None, tasks |-> <<>>, popped |-> None, pre |-> pre,
      clearing |-> clearing ]

\* p's handler goes on to statement `next` with locals l, sending nothing.
GoOn(p, next, l) ==
    /\ pc' = [pc EXCEPT ![p] = next]
    /\ local' = [local EXCEPT ![p] = l]
    /\ loop' = LoopAfter(p, next)
    /\ response' = <<>>
    /\ UNCHANGED <<req, clearing>>

\* p's handler ends and r is sent.
Finish(p, r) ==
    /\ pc' = [pc EXCEPT ![p] = "idle"]
    /\ local' = [local EXCEPT ![p] = NoLocal]
    /\ req' = [req EXCEPT ![p] = NoReq]
    /\ loop' = "none"
    /\ response' = <<r>>
    /\ clearing' = IF clearing = None \/ r.op = "list" THEN None
                   ELSE Some([clearing[1] EXCEPT !.ids = Tail(@)])

Init ==
    /\ tasks_db = <<>>
    /\ objects = <<>>
    /\ allocated = 0
    /\ detached = {}
    /\ task_id_counter = 1
    /\ pc = [p \in Procs |-> "idle"]
    /\ req = [p \in Procs |-> NoReq]
    /\ local = [p \in Procs |-> NoLocal]
    /\ loop = "none"
    /\ response = <<>>
    /\ assigned = <<>>
    /\ deleted = {}
    /\ fresh = {}
    /\ clearing = None

\* The requests a client may send: any, unless a client is clearing the
\* store, which alone sends a delete of the next id listed and, after the
\* last, a list.
MaySend(p, r) ==
    \/ clearing = None
    \/ /\ clearing # None /\ clearing[1].proc = p
       /\ r = IF clearing[1].ids # <<>>
              THEN [op |-> "delete", id |-> Head(clearing[1].ids)]
              ELSE [op |-> "list", id |-> 0]

\* A client sends a request: it is in flight until its handler has answered.
Arrive(p) ==
    /\ pc[p] = "idle"
    /\ \E r \in Requests :
          /\ MaySend(p, r)
          /\ req' = [req EXCEPT ![p] =
                    [op |-> r.op, id |-> r.id, after_delete |-> r.id \in deleted]]
    /\ pc' = [pc EXCEPT ![p] = "pending"]
    /\ response' = <<>>
    /\ UNCHANGED <<tasks_db, objects, allocated, detached, task_id_counter, local, loop,
                   assigned, deleted, fresh, clearing>>

\* The client that was just answered a list, with no request in flight,
\* starts deleting every id the list returned (test_get_empty_tasks).
StartClearing(p) ==
    /\ clearing = None
    /\ response # <<>> /\ response[1].op = "list" /\ response[1].proc = p
    /\ \A q \in Procs : pc[q] = "idle"
    /\ clearing' = Some([ proc |-> p, n |-> Len(response[1].tasks),
                          ids |-> [i \in 1..Len(response[1].tasks)
                                      |-> response[1].tasks[i].id] ])
    /\ response' = <<>>
    /\ UNCHANGED <<tasks_db, objects, allocated, detached, task_id_counter, pc, req, local,
                   loop, assigned, deleted, fresh>>

(* POST /tasks: create_task (app.py:112-130) *)

\* Body validation, then new_task = {...}: the counter and the clock are read.
CreateBegin(p) ==
    /\ pc[p] = "pending" /\ req[p].op = "create" /\ CanRun(p)
    /\ \E body \in Bodies :
          IF ~Valid(body)
          THEN /\ Finish(p, [Resp(p, 422, Some(body), Snapshot)
                                EXCEPT !.errors = ViolatedFields(body)])
               /\ UNCHANGED <<allocated, detached>>
          ELSE /\ task_id_counter <= MaxCreates
               /\ \E now \in Timestamps :
                     /\ allocated' = allocated + 1
                     /\ detached' = detached \cup
                           { [ obj  |-> allocated + 1,
                               dict |-> [ id          |-> NewId(tasks_db, task_id_counter),
                                          title       |-> TaskCreate(body).title,
                                          description |-> TaskCreate(body).description,
                                          completed   |-> TaskCreate(body).completed,
                                          created_at  |-> now ] ] }
                     /\ GoOn(p, "c_append",
                             [NoLocal EXCEPT !.body = Some(body),
                                             !.pre = Some(Snapshot),
                                             !.new_task = allocated + 1])
    /\ UNCHANGED <<tasks_db, objects, task_id_counter, assigned, deleted, fresh>>

\* tasks_db.append(new_task)
CreateAppend(p) ==
    /\ pc[p] = "c_append" /\ CanRun(p)
    /\ LET new_task == local[p].new_task IN
          /\ tasks_db' = Append(tasks_db, Deref(tasks_db, objects, detached, new_task))
          /\ objects' = Append(objects, new_task)
          /\ detached' = {e \in detached : e.obj # new_task}
    /\ GoOn(p, "c_incr", local[p])
    /\ UNCHANGED <<allocated, task_id_counter, assigned, deleted, fresh>>

\* task_id_counter += 1; return new_task (201)
CreateIncr(p) ==
    /\ pc[p] = "c_incr" /\ CanRun(p)
    /\ task_id_counter' = Increment(task_id_counter)
    /\ LET new_task == Deref(tasks_db, objects, detached, local[p].new_task) IN
          /\ assigned' = Append(assigned, new_task.id)
          /\ fresh' = fresh \cup {new_task}
          /\ Finish(p, [Resp(p, 201, local[p].body, local[p].pre[1])
                           EXCEPT !.task = Some(new_task)])
    /\ detached' = Collect(detached, [local EXCEPT ![p] = NoLocal])
    /\ UNCHANGED <<tasks_db, objects, allocated, deleted>>

(* GET /tasks: get_tasks (app.py:88-93) *)
GetTasks(p) ==
    /\ pc[p] = "pending" /\ req[p].op = "list" /\ CanRun(p)
    /\ Finish(p, [Resp(p, 200, None, Snapshot) EXCEPT !.tasks = tasks_db])
    /\ tasks_db' = AfterRead(tasks_db)
    /\ objects' = AfterRead(objects)
    /\ UNCHANGED <<allocated, detached, task_id_counter, assigned, deleted, fresh>>

(* GET /tasks/{task_id}: get_task (app.py:95-110) *)
GetTask(p) ==
    /\ pc[p] = "pending" /\ req[p].op = "get" /\ CanRun(p)
    /\ LET task == FindTask(tasks_db, objects, req[p].id) IN
          IF task = 0
          THEN Finish(p, [Resp(p, 404, None, Snapshot)
                             EXCEPT !.detail = NotFoundDetail(req[p].id)])
          ELSE Finish(p, [Resp(p, 200, None, Snapshot)
                             EXCEPT !.task = Some(Deref(tasks_db, objects, detached, task))])
    /\ tasks_db' = AfterRead(tasks_db)
    /\ objects' = AfterRead(objects)
    /\ UNCHANGED <<allocated, detached, task_id_counter, assigned, deleted, fresh>>

(* PUT /tasks/{task_id}: update_task (app.py:132-152) *)

\* Body validation, then the lookup and the 404.
UpdateBegin(p) ==
    /\ pc[p] = "pending" /\ req[p].op = "update" /\ CanRun(p)
    /\ \E body \in Bodies :
          LET task == FindTask(tasks_db, objects, req[p].id)
              check == UpdateCheck(body, task) IN
          IF check = 422
          THEN Finish(p, [Resp(p, 422, Some(body), Snapshot)
                             EXCEPT !.errors = ViolatedFields(body)])
          ELSE IF check = 404
          THEN Finish(p, [Resp(p, 404, Some(body), Snapshot)
                             EXCEPT !.detail = NotFoundDetail(req[p].id)])
          ELSE GoOn(p, "u_title",
                    [NoLocal EXCEPT !.body = Some(body), !.pre = Some(Snapshot),
                                    !.task = task])
    /\ UNCHANGED <<tasks_db, objects, allocated, detached, task_id_counter, assigned,
                   deleted, fresh>>

\* task["title"] = task_update.title
UpdateTitle(p) ==
    /\ pc[p] = "u_title" /\ CanRun(p)
    /\ LET task == local[p].task
           task_update == TaskCreate(local[p].body[1])
           new == AssignTitle(Deref(tasks_db, objects, detached, task), task_update) IN
          /\ tasks_db' = Store(tasks_db, objects, task, new)
          /\ detached' = StoreDetached(detached, objects, task, new)
          /\ fresh' = {t \in fresh : t.id # new.id}
    /\ GoOn(p, "u_description", local[p])
    /\ UNCHANGED <<objects, allocated, task_id_counter, assigned, deleted>>

\* task["description"] = task_update.description
UpdateDescription(p) ==
    /\ pc[p] = "u_description" /\ CanRun(p)
    /\ LET task == local[p].task
           task_update == TaskCreate(local[p].body[1])
           new == AssignDescription(Deref(tasks_db, objects, detached, task), task_update) IN
          /\ tasks_db' = Store(tasks_db, objects, task, new)
          /\ detached' = StoreDetached(detached, objects, task, new)
    /\ GoOn(p, "u_completed", local[p])
    /\ UNCHANGED <<objects, allocated, task_id_counter, assigned, deleted, fresh>>

\* task["completed"] = task_update.completed; return task (200)
UpdateCompleted(p) ==
    /\ pc[p] = "u_completed" /\ CanRun(p)
    /\ LET task == local[p].task
           task_update == TaskCreate(local[p].body[1])
           new == AssignCompleted(Deref(tasks_db, objects, detached, task), task_update) IN
          /\ tasks_db' = Store(tasks_db, objects, task, new)
          /\ detached' = Collect(StoreDetached(detached, objects, task, new),
                                 [local EXCEPT ![p] = NoLocal])
          /\ Finish(p, [Resp(p, 200, local[p].body, local[p].pre[1])
                           EXCEPT !.task = Some(new)])
    /\ UNCHANGED <<objects, allocated, task_id_counter, assigned, deleted, fresh>>

(* DELETE /tasks/{task_id}: delete_task (app.py:154-171) *)

\* The lookup of the index and the 404.
DeleteBegin(p) ==
    /\ pc[p] = "pending" /\ req[p].op = "delete" /\ CanRun(p)
    /\ LET task_index == FindIndex(tasks_db, req[p].id) IN
          IF task_index = 0
          THEN Finish(p, [Resp(p, 404, None, Snapshot)
                             EXCEPT !.detail = NotFoundDetail(req[p].id)])
          ELSE GoOn(p, "d_pop",
                    [NoLocal EXCEPT !.pre = Some(Snapshot), !.task_index = task_index])
    /\ UNCHANGED <<tasks_db, objects, allocated, detached, task_id_counter, assigned,
                   deleted, fresh>>

\* tasks_db.pop(task_index); return (204).  An index past the end raises
\* IndexError, which the framework answers with 500.  A dict popped while
\* another handler holds it lives on outside the list.
DeletePop(p) ==
    /\ pc[p] = "d_pop" /\ CanRun(p)
    /\ LET task_index == local[p].task_index IN
          IF task_index > Len(tasks_db)
          THEN /\ Finish(p, Resp(p, 500, None, local[p].pre[1]))
               /\ UNCHANGED <<tasks_db, objects, detached, deleted, fresh>>
          ELSE /\ tasks_db' = Pop(tasks_db, task_index)
               /\ objects' = Pop(objects, task_index)
               /\ detached' = Collect(detached \cup Removed(tasks_db, objects, objects'),
                                      [local EXCEPT ![p] = NoLocal])
               /\ deleted' = deleted \cup {req[p].id}
               /\ fresh' = {t \in fresh : t.id # tasks_db[task_index].id}
               /\ Finish(p, [Resp(p, 204, None, local[p].pre[1])
                                EXCEPT !.popped = Some(tasks_db[task_index].id)])
    /\ UNCHANGED <<allocated, task_id_counter, assigned>>

Next ==
    \E p \in Procs :
        \/ Arrive(p)
        \/ StartClearing(p)
        \/ CreateBegin(p)
        \/ CreateAppend(p)
        \/ CreateIncr(p)
        \/ GetTasks(p)
        \/ GetTask(p)
        \/ UpdateBegin(p)
        \/ UpdateTitle(p)
        \/ UpdateDescription(p)
        \/ UpdateCompleted(p)
        \/ DeleteBegin(p)
        \/ DeletePop(p)

Spec == Init /\ [][Next]_vars

----------------------------------------------------------------------------
(* Properties *)

\* The response the last step sent, when it sent one.
Sent == response # <<>>
R == response[1]

\* The ids of a list are pairwise distinct.
NoDupIds(db) == \A i, j \in 1..Len(db) : i # j => db[i].id # db[j].id

\* No task of a list has this id.
Absent(db, id) == \A i \in 1..Len(db) : db[i].id # id

\* The store is as it was when the answered request's handler began.
StoreUnchanged == tasks_db = R.pre.db /\ task_id_counter = R.pre.counter

\* The schema of section 3: title of 1 to 100 characters, description absent
\* or of at most 500 characters.
SchemaViolated(body) ==
    ~ /\ body.title # <<>>
      /\ Len(body.title[1]) >= 1
      /\ Len(body.title[1]) <= 100
      /\ (body.description = <<>> \/ Len(body.description[1]) <= 500)

\* title, description and completed are those of one single request body.
Whole(t) ==
    \E b \in ValidBodies :
        /\ t.title = b.title[1]
        /\ t.description = b.description
        /\ t.completed = (b.completed = <<TRUE>>)

\* The dict a running create built.
NewTask(p) == Deref(tasks_db, objects, detached, local[p].new_task)

\* C1: the ids returned by successive successful creates are strictly
\* increasing, so no id is assigned twice, also after deletions.
C1_IdsStrictlyIncreasing ==
    \A i, j \in 1..Len(assigned) : i < j => assigned[i] < assigned[j]

\* A create has just answered after the previously created task was deleted.
C1_Witness ==
    /\ Sent /\ R.op = "create" /\ R.status = 201
    /\ Len(assigned) >= 2
    /\ assigned[Len(assigned) - 1] \in deleted
    /\ R.task[1].id = assigned[Len(assigned)]

\* C2: creates in flight at the same time never get the same id: the ids
\* returned by creates are pairwise distinct, no two creates under way hold
\* the same id, and the list never holds two tasks with one id.
C2_ConcurrentCreatesDistinct ==
    /\ \A i, j \in 1..Len(assigned) : i # j => assigned[i] # assigned[j]
    /\ \A p, q \in Procs :
          (p # q /\ local[p].new_task # 0 /\ local[q].new_task # 0)
             => NewTask(p).id # NewTask(q).id
    /\ \A p \in Procs : \A i \in 1..Len(assigned) :
          (pc[p] = "c_append") => NewTask(p).id # assigned[i]
    /\ NoDupIds(tasks_db)

\* A create is answered while another create is in flight, after an earlier create.
C2_Witness ==
    /\ Sent /\ R.op = "create" /\ R.status = 201 /\ Len(assigned) = 1
    /\ \E q \in Procs : q # R.proc /\ req[q].op = "create" /\ pc[q] = "pending"

\* C3: a get or a list never returns a task whose title, description and
\* completed mix the values of two requests: each returned task is whole.
C3_ReadsSeeWholeTasks ==
    Sent =>
       /\ (R.op = "get" /\ R.status = 200) => Whole(R.task[1])
       /\ (R.op = "list") => \A i \in 1..Len(R.tasks) : Whole(R.tasks[i])

\* A get answers 200 while an update of the same task is in flight.
C3_Witness ==
    /\ Sent /\ R.op = "get" /\ R.status = 200
    /\ \E q \in Procs :
          q # R.proc /\ req[q].op = "update" /\ req[q].id = R.id /\ pc[q] = "pending"

\* C4: a delete that answers 204 popped the task with its own id and no
\* task with another id: every other task it found is still in the list.
C4_DeleteRemovesItsOwnTask ==
    (Sent /\ R.op = "delete" /\ R.status = 204) =>
       /\ R.popped = <<R.id>>
       /\ \A i \in 1..Len(R.pre.db) :
             R.pre.db[i].id # R.id
                => \E j \in 1..Len(tasks_db) : tasks_db[j] = R.pre.db[i]

\* A delete answers 204, leaving another task, while a delete of the same id is in flight.
C4_Witness ==
    /\ Sent /\ R.op = "delete" /\ R.status = 204 /\ Len(tasks_db) >= 1
    /\ \E q \in Procs :
          q # R.proc /\ req[q].op = "delete" /\ req[q].id = R.id /\ pc[q] = "pending"

\* C5: the tasks of the collection have pairwise distinct ids.
C5_UniqueIds == NoDupIds(tasks_db)

\* Two tasks are in the collection.
C5_Witness == Len(tasks_db) = 2 /\ tasks_db[1].id # tasks_db[2].id

\* C6 as stated: every get, update and delete of an id sent after its
\* delete answered 204 answers 404.
C6_Original ==
    (Sent /\ R.op \in {"get", "update", "delete"} /\ R.after_delete)
       => R.status = 404

\* C6 amended: every get and delete of an id, and every update of it with a
\* schema-valid body, sent after its delete answered 204 answers 404; an
\* update with a schema-violating body answers 422.
C6_DeleteIsTerminal ==
    (Sent /\ R.op \in {"get", "update", "delete"} /\ R.after_delete)
       => IF R.op = "update" /\ SchemaViolated(R.body[1])
          THEN R.status = 422
          ELSE R.status = 404

\* An update of a deleted id answers 404 after another task was created.
C6_Witness ==
    /\ Sent /\ R.op = "update" /\ R.after_delete /\ R.status = 404
    /\ R.id \in deleted
    /\ Len(tasks_db) >= 1

\* C7 as stated: a get, update or delete whose id matches no task answers
\* 404 with the detail naming the id and leaves the store unchanged.
C7_Original ==
    (Sent /\ R.op \in {"get", "update", "delete"} /\ Absent(R.pre.db, R.id))
       => /\ R.status = 404
          /\ R.detail = "Task with id " \o IntToStr(R.id) \o " not found"
          /\ StoreUnchanged

\* C7 amended: a get or delete, or an update with a schema-valid body, whose
\* id matches no task answers 404 with the detail naming the id and leaves
\* the collection and the counter unchanged.
C7_NotFoundLeavesStore ==
    (/\ Sent /\ R.op \in {"get", "update", "delete"} /\ Absent(R.pre.db, R.id)
     /\ R.op = "update" => ~SchemaViolated(R.body[1]))
       => /\ R.status = 404
          /\ R.detail = "Task with id " \o IntToStr(R.id) \o " not found"
          /\ StoreUnchanged

\* A delete of the id no task ever had answers 404 on a non-empty collection.
C7_Witness ==
    /\ Sent /\ R.op = "delete" /\ R.id = MissingId /\ R.status = 404
    /\ R.detail = "Task with id 99999 not found"
    /\ Len(tasks_db) >= 1

\* C8: a create whose body violates the schema answers 422 and leaves the
\* collection and the id counter unchanged.
C8_InvalidCreateLeavesStore ==
    (Sent /\ R.op = "create" /\ SchemaViolated(R.body[1]))
       => /\ R.status = 422
          /\ StoreUnchanged

\* A create with an empty title answers 422 on a non-empty collection.
C8_Witness ==
    /\ Sent /\ R.op = "create" /\ R.status = 422
    /\ R.body[1].title = <<"">>
    /\ Len(tasks_db) >= 1 /\ task_id_counter = 2

\* C9: a create or update body is rejected with a validation error exactly
\* when it violates the schema.
C9_AcceptedIffInSchema ==
    (Sent /\ R.op \in {"create", "update"})
       => /\ (R.status = 422) <=> SchemaViolated(R.body[1])
          /\ (R.status = 422) => R.errors # {}

\* A create with a title of 100 and a description of 500 characters answers 201.
C9_Witness ==
    /\ Sent /\ R.op = "create" /\ R.status = 201
    /\ Len(R.body[1].title[1]) = 100
    /\ Len(R.body[1].description[1]) = 500

\* C10: after an update answers 200 the stored task's title, description and
\* completed are the body's, omitted description as null and omitted
\* completed as false, and the answer is that task.
C10_UpdateReplacesFully ==
    (Sent /\ R.op = "update" /\ R.status = 200) =>
       /\ ~Absent(tasks_db, R.id)
       /\ \A i \in 1..Len(tasks_db) :
             tasks_db[i].id = R.id =>
                /\ tasks_db[i].title = R.body[1].title[1]
                /\ tasks_db[i].description = R.body[1].description
                /\ tasks_db[i].completed = (R.body[1].completed = <<TRUE>>)
                /\ R.task = <<tasks_db[i]>>

\* An update omitting description and completed answers 200 for a task that
\* held a description and was completed.
C10_Witness ==
    /\ Sent /\ R.op = "update" /\ R.status = 200
    /\ R.body[1].description = <<>> /\ R.body[1].completed = <<>>
    /\ \E i \in 1..Len(R.pre.db) :
          /\ R.pre.db[i].id = R.id
          /\ R.pre.db[i].description # <<>>
          /\ R.pre.db[i].completed

\* The position of an id in the order of creation (0 when never assigned).
CreatedAt(id) ==
    IF \E k \in 1..Len(assigned) : assigned[k] = id
    THEN CHOOSE k \in 1..Len(assigned) : assigned[k] = id
    ELSE 0

\* C11: a successful update leaves the updated task's id and created_at, every
\* other task, every task's position and the id counter as they were.
C11_UpdateFrame ==
    (Sent /\ R.op = "update" /\ R.status = 200) =>
       /\ task_id_counter = R.pre.counter
       /\ Len(tasks_db) = Len(R.pre.db)
       /\ \A i \in 1..Len(R.pre.db) :
             /\ tasks_db[i].id = R.pre.db[i].id
             /\ tasks_db[i].created_at = R.pre.db[i].created_at
             /\ R.pre.db[i].id # R.id => tasks_db[i] = R.pre.db[i]
       /\ R.task[1].id = R.id

\* An update changed the first of two tasks.
C11_Witness ==
    /\ Sent /\ R.op = "update" /\ R.status = 200
    /\ Len(tasks_db) = 2
    /\ R.id = tasks_db[1].id
    /\ tasks_db[1] # R.pre.db[1]

\* C12: a create answers 201 with the submitted title, description and
\* completed, and a get of the id any create returned, with no update or
\* delete of that id since, answers 200 with the task that create returned,
\* whatever was created, updated or deleted besides.
C12_RoundTrip ==
    Sent =>
       /\ (R.op = "create" /\ R.status = 201) =>
             /\ R.task[1].title = R.body[1].title[1]
             /\ R.task[1].description = R.body[1].description
             /\ R.task[1].completed = (R.body[1].completed = <<TRUE>>)
             /\ R.task[1].created_at \in Timestamps
             /\ R.task[1] \in fresh
       /\ (R.op = "get") =>
             \A t \in fresh : t.id = R.id => (R.status = 200 /\ R.task = <<t>>)

\* A get answers 200 for the first task created, as its create returned it,
\* after two more creates, the last with another title, and a delete of the second.
C12_Witness ==
    /\ Sent /\ R.op = "get" /\ R.status = 200
    /\ R.task[1] \in fresh
    /\ Len(assigned) = 3 /\ R.id = assigned[1] /\ assigned[2] \in deleted
    /\ Len(tasks_db) = 2 /\ tasks_db[2].title # R.task[1].title

\* C13: list returns all current tasks and only those, the tasks created and
\* not deleted, in the order of their creation.
C13_ListInInsertionOrder ==
    (Sent /\ R.op = "list") =>
       /\ R.status = 200
       /\ R.tasks = tasks_db
       /\ {R.tasks[i].id : i \in 1..Len(R.tasks)}
             = {assigned[k] : k \in 1..Len(assigned)} \ deleted
       /\ \A i, j \in 1..Len(R.tasks) :
             i < j => /\ CreatedAt(R.tasks[i].id) > 0
                      /\ CreatedAt(R.tasks[i].id) < CreatedAt(R.tasks[j].id)

\* A list returns the second and third task created, in that order, after
\* the first was deleted and the second was updated.
C13_Witness ==
    /\ Sent /\ R.op = "list" /\ Len(R.tasks) = 2
    /\ Len(assigned) = 3 /\ assigned[1] \in deleted
    /\ R.tasks[1].id = assigned[2] /\ R.tasks[2].id = assigned[3]
    /\ R.tasks[1] \notin fresh /\ R.tasks[2] \in fresh

\* C14: the k-th successful create receives id k.
C14_KthCreateGetsK ==
    \A k \in 1..Len(assigned) : assigned[k] = k

\* The second create answers with id 2 after the first task was deleted.
C14_Witness ==
    /\ Sent /\ R.op = "create" /\ R.status = 201
    /\ Len(assigned) = 2 /\ R.task[1].id = 2
    /\ 1 \in deleted

\* C15: get and list leave the collection and the id counter as they were,
\* and list returns the collection, so a second list returns the same.
C15_ReadsLeaveStore ==
    (Sent /\ R.op \in {"get", "list"}) =>
       /\ StoreUnchanged
       /\ R.op = "list" => R.tasks = R.pre.db

\* A get answers 200 on a collection of two tasks.
C15_Witness ==
    /\ Sent /\ R.op = "get" /\ R.status = 200
    /\ Len(tasks_db) = 2 /\ Len(R.pre.db) = 2

\* C16: a successful delete removes exactly the entry with its id and leaves
\* the other tasks, their order and the id counter as they were.
C16_DeleteFrame ==
    (Sent /\ R.op = "delete" /\ R.status = 204) =>
       /\ task_id_counter = R.pre.counter
       /\ \E k \in 1..Len(R.pre.db) :
             /\ R.pre.db[k].id = R.id
             /\ tasks_db = SubSeq(R.pre.db, 1, k - 1)
                              \o SubSeq(R.pre.db, k + 1, Len(R.pre.db))

\* A delete removed the first of three tasks, leaving the second and the
\* third, which differ, in their order.
C16_Witness ==
    /\ Sent /\ R.op = "delete" /\ R.status = 204
    /\ Len(R.pre.db) = 3 /\ R.pre.db[1].id = R.id
    /\ R.pre.db[2] # R.pre.db[3]
    /\ tasks_db = <<R.pre.db[2], R.pre.db[3]>>

\* C17: when a client, after a list, deletes every id the list returned with
\* no other request in between, each delete answers 204, the collection is
\* empty after the last, and the next list answers 200 with an empty list.
C17_ClearingEmptiesStore ==
    (Sent /\ R.clearing # <<>>) =>
       /\ R.op = "delete" => R.status = 204
       /\ (R.op = "delete" /\ Len(R.clearing[1].ids) = 1) => tasks_db = <<>>
       /\ R.op = "list" => (R.status = 200 /\ R.tasks = <<>>)

\* The list after the deletes of two listed tasks is answered.
C17_Witness ==
    /\ Sent /\ R.clearing # <<>> /\ R.op = "list"
    /\ R.clearing[1].n = 2 /\ R.clearing[1].ids = <<>>
    /\ R.status = 200

\* C18: between requests the ids of the collection, read in order, are
\* strictly increasing, at least 1 and below the id counter.
C18_IdsSortedBelowCounter ==
    loop = "none" =>
       /\ \A i, j \in 1..Len(tasks_db) : i < j => tasks_db[i].id < tasks_db[j].id
       /\ \A i \in 1..Len(tasks_db) :
             tasks_db[i].id >= 1 /\ tasks_db[i].id < task_id_counter

\* Two tasks are in the collection and no handler is running.
C18_Witness ==
    /\ loop = "none" /\ Len(tasks_db) = 2
    /\ task_id_counter = tasks_db[2].id + 1

\* C19: an update with a schema-violating body answers 422 and leaves the
\* store unchanged whether or not the task exists; 404 is answered only for
\* a schema-valid body and an absent id.
C19_ValidationBeforeLookup ==
    (Sent /\ R.op = "update") =>
       /\ SchemaViolated(R.body[1]) => (R.status = 422 /\ StoreUnchanged)
       /\ R.status = 404 => (~SchemaViolated(R.body[1]) /\ Absent(R.pre.db, R.id))

\* An update with a schema-violating body answers 422 for an id no task has.
C19_Witness ==
    /\ Sent /\ R.op = "update" /\ R.status = 422
    /\ Absent(R.pre.db, R.id)
    /\ Len(tasks_db) >= 1

====
